---- MODULE Spec2Model ----
(***************************************************************************)
(* A model of python-tuskarclient.                                         *)
(*                                                                         *)
(*   AuthSpec     tuskarclient/common/auth.py, KeystoneAuthPlugin: one     *)
(*                plugin instance with a fixed option record, driven by an *)
(*                arbitrary sequence of sufficient_options,                *)
(*                _do_authenticate and token_and_endpoint calls.           *)
(*   ManagerSpec  tuskarclient/common/base.py, Manager: one manager driven *)
(*                by an arbitrary sequence of _get, _list, delete, _create *)
(*                and _update calls, the service answering each request    *)
(*                with any body.                                           *)
(*   ShellSpec    tuskarclient/shell.py, main and TuskarShell.run: one run *)
(*                of the shell on a command line and a set of              *)
(*                authentication arguments, step by step.                  *)
(*   PlanSpec     tuskarclient/osc/v2/plan.py: one run of plan create,     *)
(*                plan set, plan show or plan download, the service        *)
(*                answering each request with a result or an error.        *)
(*   OvercloudSpec tuskarclient/v1/overclouds_shell.py: overcloud-delete   *)
(*                commands, one after another, against a service holding   *)
(*                some overclouds.                                         *)
(*                                                                         *)
(* Python values are modelled by what the code does with them: truthiness  *)
(* (None, "" , {} and [] are falsy), `is None`, subscripting, iteration.   *)
(***************************************************************************)
EXTENDS Integers, Sequences, FiniteSets, TLC

VARIABLES
    opts,        \* KeystoneAuthPlugin.opts: option name -> value
    ksclient,    \* the attribute self._ksclient, NoAttr while it is not set
    handshakes,  \* ksclient.Client(...) constructions: identity-service round trips
    authCalls,   \* _do_authenticate calls made so far
    last,        \* the most recent plugin call: its arguments and its outcome
    requests,    \* the HTTP requests the most recent Manager call issued, in order
    mlast,       \* the most recent Manager call: its arguments and its outcome
    cli          \* the command-line run in progress: its input, position and effects

vars == <<opts, ksclient, handshakes, authCalls, last, requests, mlast, cli>>
authVars == <<opts, ksclient, handshakes, authCalls, last>>
managerVars == <<requests, mlast>>

(***************************************************************************)
(* Bounds.                                                                 *)
(***************************************************************************)
\* _do_authenticate calls in one behaviour
MaxAuth == 2
\* elements of a response array
MaxLen == 3

(***************************************************************************)
(* Python strings and None, as the plugin sees them.                       *)
(***************************************************************************)
None == "<None>"

\* bool(v) of a str-or-None value
Truthy(v) == v # None /\ v # ""

\* Python's `a or b` on str-or-None values
Or(a, b) == IF Truthy(a) THEN a ELSE b

opt_names ==
    <<"username", "password", "tenant_id", "tenant_name", "token", "auth_url",
      "endpoint">>

\* the values an option is given in the model: unset, empty, a non-empty string
OptValues(name) == {None, "", "the-" \o name}

\* the endpoint_type / service_type arguments of token_and_endpoint
EndpointTypes == {None, "", "publicURL"}
ServiceTypes == {None, "", "metering"}

RangeOf(s) == {s[i] : i \in DOMAIN s}

\* [opt for opt in table if pred(opt)], in the order of the table
RECURSIVE SelectNames(_, _)
SelectNames(table, o) ==
    IF table = <<>> THEN <<>>
    ELSE (IF ~Truthy(o[Head(table)]) THEN <<Head(table)>> ELSE <<>>)
         \o SelectNames(Tail(table), o)

\* sep.join(names)
RECURSIVE Join(_, _)
Join(sep, names) ==
    IF names = <<>> THEN ""
    ELSE IF Len(names) = 1 THEN names[1]
    ELSE names[1] \o sep \o Join(sep, Tail(names))

(***************************************************************************)
(* The identity service, as the plugin uses it.                            *)
(***************************************************************************)
NoAttr == [session |-> 0, auth_token |-> None, kwargs |-> <<>>]

\* ksclient.Client(**ks_kwargs): the n-th session established with the service
Client(kwargs, n) ==
    [session |-> n, auth_token |-> "ks-token-" \o ToString(n), kwargs |-> kwargs]

\* service_catalog.url_for(service_type=..., endpoint_type=...)
url_for(service_type, endpoint_type) ==
    "http://catalog/" \o service_type \o "/" \o endpoint_type

(***************************************************************************)
(* KeystoneAuthPlugin                                                      *)
(***************************************************************************)
NoError == [raised |-> FALSE, opt_names |-> <<>>]

\* raise AuthPluginOptionsMissing(names). The tenant error passes the joined
\* string itself; the model keeps it as the only element of the sequence.
AuthPluginOptionsMissing(names) == [raised |-> TRUE, opt_names |-> names]

tenant_opts == <<"tenant_id", "tenant_name">>

\* Mutant: the generic missing-option check is made before the tenant check.
sufficient_options_tenant_last(o) ==
    LET lookup_table == IF Truthy(o.token) THEN <<"token", "endpoint">>
                        ELSE <<"username", "password", "auth_url">>
        missing == SelectNames(lookup_table, o)
    IN  IF missing # <<>> THEN AuthPluginOptionsMissing(missing)
        ELSE IF ~Truthy(o.token) /\ \A i \in DOMAIN tenant_opts : ~Truthy(o[tenant_opts[i]])
        THEN AuthPluginOptionsMissing(<<Join(" or ", tenant_opts)>>)
        ELSE NoError

\* Mutant: both tenant options are required instead of any one of them.
sufficient_options_all_tenants(o) ==
    LET lookup_table == IF Truthy(o.token) THEN <<"token", "endpoint">>
                        ELSE <<"username", "password", "auth_url">>
        missing == SelectNames(lookup_table, o)
    IN  IF ~Truthy(o.token) /\ ~(\A i \in DOMAIN tenant_opts : Truthy(o[tenant_opts[i]]))
        THEN AuthPluginOptionsMissing(<<Join(" or ", tenant_opts)>>)
        ELSE IF missing # <<>> THEN AuthPluginOptionsMissing(missing)
        ELSE NoError

\* Mutant: auth_url is left out of the password-mode lookup table.
sufficient_options_no_auth_url(o) ==
    LET lookup_table == IF Truthy(o.token) THEN <<"token", "endpoint">>
                        ELSE <<"username", "password">>
        missing == SelectNames(lookup_table, o)
    IN  IF ~Truthy(o.token) /\ ~(\E i \in DOMAIN tenant_opts : Truthy(o[tenant_opts[i]]))
        THEN AuthPluginOptionsMissing(<<Join(" or ", tenant_opts)>>)
        ELSE IF missing # <<>> THEN AuthPluginOptionsMissing(missing)
        ELSE NoError

\* sufficient_options(self): NoError, or the AuthPluginOptionsMissing raised
sufficient_options(o) ==
    LET lookup_table == IF Truthy(o.token) THEN <<"token", "endpoint">>
                        ELSE <<"username", "password", "auth_url">>
        missing == SelectNames(lookup_table, o)
    IN  IF ~Truthy(o.token) /\ ~(\E i \in DOMAIN tenant_opts : Truthy(o[tenant_opts[i]]))
        THEN AuthPluginOptionsMissing(<<Join(" or ", tenant_opts)>>)
        ELSE IF missing # <<>> THEN AuthPluginOptionsMissing(missing)
        ELSE NoError

ks_kwargs(o) ==
    [username |-> o.username, password |-> o.password, tenant_id |-> o.tenant_id,
     tenant_name |-> o.tenant_name, auth_url |-> o.auth_url]

\* Mutant: the session is created whether or not a token was given.
do_authenticate_always(o, ks, n) == Client(ks_kwargs(o), n + 1)

\* Mutant: an established session is kept instead of authenticating again.
do_authenticate_cached(o, ks, n) ==
    IF o.token = None /\ ks = NoAttr THEN Client(ks_kwargs(o), n + 1) ELSE ks

\* _do_authenticate(self, httpclient): self._ksclient afterwards, n sessions
\* having been established before
do_authenticate(o, ks, n) ==
    IF o.token = None THEN Client(ks_kwargs(o), n + 1) ELSE ks

\* Mutant: the catalog is consulted first and the option is only the fallback.
token_and_endpoint_catalog_first(o, ks, endpoint_type, service_type) ==
    IF Truthy(o.token) /\ Truthy(o.endpoint)
    THEN [token |-> o.token, endpoint |-> o.endpoint, lookups |-> <<>>]
    ELSE IF ks # NoAttr
    THEN [token |-> ks.auth_token,
          endpoint |-> url_for(Or(service_type, "management"), endpoint_type),
          lookups |-> << <<Or(service_type, "management"), endpoint_type>> >>]
    ELSE [token |-> None, endpoint |-> None, lookups |-> <<>>]

\* Mutant: the service type is passed on without its default.
token_and_endpoint_no_default(o, ks, endpoint_type, service_type) ==
    IF Truthy(o.token) /\ Truthy(o.endpoint)
    THEN [token |-> o.token, endpoint |-> o.endpoint, lookups |-> <<>>]
    ELSE IF ks # NoAttr
    THEN [token |-> ks.auth_token,
          endpoint |-> IF Truthy(o.endpoint) THEN o.endpoint
                       ELSE url_for(service_type, endpoint_type),
          lookups |-> IF Truthy(o.endpoint) THEN <<>>
                      ELSE << <<service_type, endpoint_type>> >>]
    ELSE [token |-> None, endpoint |-> None, lookups |-> <<>>]

\* token_and_endpoint(self, endpoint_type, service_type): the pair returned and
\* the (service_type, endpoint_type) keys looked up in the catalog on the way
token_and_endpoint(o, ks, endpoint_type, service_type) ==
    IF Truthy(o.token) /\ Truthy(o.endpoint)
    THEN [token |-> o.token, endpoint |-> o.endpoint, lookups |-> <<>>]
    ELSE IF ks # NoAttr
    THEN [token |-> ks.auth_token,
          endpoint |-> IF Truthy(o.endpoint) THEN o.endpoint
                       ELSE url_for(Or(service_type, "management"), endpoint_type),
          lookups |-> IF Truthy(o.endpoint) THEN <<>>
                      ELSE << <<Or(service_type, "management"), endpoint_type>> >>]
    ELSE [token |-> None, endpoint |-> None, lookups |-> <<>>]

(***************************************************************************)
(* The plugin's calls as steps.                                            *)
(***************************************************************************)
(***************************************************************************)
(* JSON documents as Python values: every value is a record with a type    *)
(* tag t, a string s and a sequence of values items, so that values of     *)
(* different Python types can be told apart without comparing across types.*)
(***************************************************************************)
PyNone == [t |-> "none", s |-> "", items |-> <<>>]
PyStr(x) == [t |-> "str", s |-> x, items |-> <<>>]
PyList(xs) == [t |-> "list", s |-> "", items |-> xs]
\* one key: value pair of a dict; a dict keeps its pairs in insertion order
Entry(k, v) == [t |-> "entry", s |-> k, items |-> <<v>>]
PyDict(es) == [t |-> "dict", s |-> "", items |-> es]

\* bool(v)
PyTruthy(v) ==
    CASE v.t = "none" -> FALSE
      [] v.t = "str" -> v.s # ""
      [] v.t \in {"list", "dict"} -> v.items # <<>>
      [] OTHER -> TRUE

\* key in d, and d[key] for a key that is in d
HasKey(d, key) == \E i \in DOMAIN d.items : d.items[i].s = key
GetItem(d, key) ==
    d.items[CHOOSE i \in DOMAIN d.items : d.items[i].s = key].items[1]

\* iter(v): the elements of a list, the keys of a dict
Elements(v) ==
    CASE v.t = "list" -> v.items
      [] v.t = "dict" -> [i \in DOMAIN v.items |-> PyStr(v.items[i].s)]

\* a resource document, as the service returns it
Doc(uuid) == PyDict(<<Entry("uuid", PyStr(uuid))>>)

\* the elements a response array holds in the model: documents and falsy values
Elems == {Doc("u1"), Doc("u2"), PyNone}

SeqsUpTo(S, n) == UNION {[1..k -> S] : k \in 0..n}

\* the bodies api.json_request returns: no body, an object, an array, an object
\* holding an array (or null) under the response key or under another key
Bodies ==
    {PyNone, PyDict(<<>>), Doc("u1"), PyDict(<<Entry("plans", PyNone)>>),
     PyDict(<<Entry("other", PyList(<<Doc("u1")>>))>>)}
    \cup {PyList(xs) : xs \in SeqsUpTo(Elems, MaxLen)}
    \cup {PyDict(<<Entry("plans", PyList(xs))>>) : xs \in SeqsUpTo(Elems, MaxLen)}

\* the response_key argument: the default, or the key of the collection
ResponseKeys == {None, "plans"}

\* the ids handed to _single_path: None, the empty string, a uuid
Ids == {None, "", "u1"}

(***************************************************************************)
(* Manager                                                                 *)
(***************************************************************************)
\* resource_class(self, res, loaded=True)
Resource(res) == [t |-> "Resource", s |-> "", items |-> <<res>>]

\* _path(id), by its contract: the single resource path if id is given,
\* otherwise the collection path
path(id) == IF Truthy(id) THEN "/v2/plans/" \o id ELSE "/v2/plans"

Returns(v) == [exc |-> "", ret |-> v]
Raises(e) == [exc |-> e, ret |-> PyNone]

\* Mutant: the id is not checked.
single_path_unchecked(id) == [exc |-> "", url |-> path(id)]

\* _single_path(self, id)
single_path(id) ==
    IF ~Truthy(id) THEN [exc |-> "ValueError", url |-> ""]
    ELSE [exc |-> "", url |-> path(id)]

\* Mutant: falsy elements are wrapped as well.
RECURSIVE ResourcesUnfiltered(_)
ResourcesUnfiltered(xs) ==
    IF xs = <<>> THEN <<>>
    ELSE <<Resource(Head(xs))>> \o ResourcesUnfiltered(Tail(xs))

\* [obj_class(self, res, loaded=True) for res in data if res]
RECURSIVE Resources(_)
Resources(xs) ==
    IF xs = <<>> THEN <<>>
    ELSE (IF PyTruthy(Head(xs)) THEN <<Resource(Head(xs))>> ELSE <<>>)
         \o Resources(Tail(xs))

\* the comprehension over data, which raises TypeError when data is None
Comprehension(data) ==
    IF data.t \in {"list", "dict"}
    THEN Returns(PyList(Resources(Elements(data))))
    ELSE Raises("TypeError")

\* _list(self, url, response_key, expect_single=...) on the body the GET
\* returned: body[response_key] raises KeyError (caught: return []) on a dict
\* without the key and TypeError (not caught) on None and on a list
list(body, response_key, expect_single) ==
    IF Truthy(response_key) /\ body.t # "dict" THEN Raises("TypeError")
    ELSE IF Truthy(response_key) /\ ~HasKey(body, response_key)
    THEN Returns(PyList(<<>>))
    ELSE LET data == IF Truthy(response_key) THEN GetItem(body, response_key)
                     ELSE body
         IN  IF expect_single THEN Comprehension(PyList(<<data>>))
             ELSE Comprehension(data)

\* the expect_single keyword of _get: not passed, True, False
ExpectSingleKw == {"unset", "True", "False"}

\* kwargs.setdefault('expect_single', True)
setdefault_expect_single(kw) == IF kw = "unset" THEN TRUE ELSE kw = "True"

\* _get(self, url, **kwargs) on the body the GET returned: IndexError is
\* caught, any other exception of _list propagates
get(body, response_key, kw) ==
    LET r == list(body, response_key, setdefault_expect_single(kw))
    IN  IF r.exc # "" THEN r
        ELSE IF r.ret.items = <<>> THEN Returns(PyNone)
        ELSE Returns(r.ret.items[1])

\* the bodies a POST or PUT is answered with: none, an empty one, a document
WriteBodies == {PyNone, PyDict(<<>>), PyList(<<>>), Doc("u1"), Doc("u2")}

\* Mutant: the response body is wrapped without being tested.
create_unchecked(body) == Returns(Resource(body))

\* _create(self, url, body), on the body the POST returned
create(body) == IF PyTruthy(body) THEN Returns(Resource(body)) ELSE Returns(PyNone)

\* _update(self, url, body, response_key=None), on the body the PUT returned
update(body) == IF PyTruthy(body) THEN Returns(Resource(body)) ELSE Returns(PyNone)

Request(method, url) == [method |-> method, url |-> url]

\* no Manager call made yet
NoManagerCall ==
    [op |-> "none", id |-> None, response_key |-> None, expect_single |-> "unset",
     body |-> PyNone, exc |-> "", ret |-> PyNone]
\* no command-line run in progress
NoRun == [pc |-> "none"]

NoCall ==
    [op |-> "none", endpoint_type |-> None, service_type |-> None,
     token |-> None, endpoint |-> None, lookups |-> <<>>, error |-> NoError]

AuthInit ==
    /\ opts \in [username : OptValues("username"), password : OptValues("password"),
                 tenant_id : OptValues("tenant_id"),
                 tenant_name : OptValues("tenant_name"), token : OptValues("token"),
                 auth_url : OptValues("auth_url"), endpoint : OptValues("endpoint")]
    /\ ksclient = NoAttr
    /\ handshakes = 0
    /\ authCalls = 0
    /\ last = NoCall
    /\ requests = <<>>
    /\ mlast = NoManagerCall
    /\ cli = NoRun

CallSufficientOptions ==
    /\ last' = [NoCall EXCEPT !.op = "sufficient_options",
                              !.error = sufficient_options(opts)]
    /\ UNCHANGED <<opts, ksclient, handshakes, authCalls, managerVars, cli>>

CallDoAuthenticate ==
    /\ authCalls < MaxAuth
    /\ authCalls' = authCalls + 1
    /\ ksclient' = do_authenticate(opts, ksclient, handshakes)
    /\ handshakes' = IF ksclient'.session > ksclient.session
                     THEN handshakes + 1 ELSE handshakes
    /\ last' = [NoCall EXCEPT !.op = "_do_authenticate"]
    /\ UNCHANGED <<opts, managerVars, cli>>

CallTokenAndEndpoint ==
    \E endpoint_type \in EndpointTypes, service_type \in ServiceTypes :
        LET r == token_and_endpoint(opts, ksclient, endpoint_type, service_type)
        IN  /\ last' = [NoCall EXCEPT !.op = "token_and_endpoint",
                                      !.endpoint_type = endpoint_type,
                                      !.service_type = service_type,
                                      !.token = r.token,
                                      !.endpoint = r.endpoint,
                                      !.lookups = r.lookups]
            /\ UNCHANGED <<opts, ksclient, handshakes, authCalls, managerVars, cli>>

AuthNext ==
    \/ CallSufficientOptions
    \/ CallDoAuthenticate
    \/ CallTokenAndEndpoint

AuthSpec == AuthInit /\ [][AuthNext]_vars

(***************************************************************************)
(* The Manager's calls as steps. The service answers a GET with any body.  *)
(***************************************************************************)
ManagerInit ==
    /\ opts = [n \in RangeOf(opt_names) |-> None]
    /\ ksclient = NoAttr
    /\ handshakes = 0
    /\ authCalls = 0
    /\ last = NoCall
    /\ requests = <<>>
    /\ mlast = NoManagerCall
    /\ cli = NoRun

CallGet ==
    \E body \in Bodies, response_key \in ResponseKeys, kw \in ExpectSingleKw :
        LET r == get(body, response_key, kw)
        IN  /\ requests' = <<Request("GET", path("u1"))>>
            /\ mlast' = [NoManagerCall EXCEPT !.op = "_get", !.id = "u1",
                                               !.response_key = response_key,
                                               !.expect_single = kw,
                                               !.body = body,
                                               !.exc = r.exc, !.ret = r.ret]
            /\ UNCHANGED <<authVars, cli>>

CallList ==
    \E body \in Bodies, response_key \in ResponseKeys, expect_single \in BOOLEAN :
        LET r == list(body, response_key, expect_single)
        IN  /\ requests' = <<Request("GET", path(None))>>
            /\ mlast' = [NoManagerCall EXCEPT !.op = "_list",
                                               !.response_key = response_key,
                                               !.expect_single =
                                                   IF expect_single THEN "True"
                                                   ELSE "False",
                                               !.body = body,
                                               !.exc = r.exc, !.ret = r.ret]
            /\ UNCHANGED <<authVars, cli>>

\* self._delete(self._single_path(id)): the argument is evaluated first, so an
\* exception of _single_path leaves _delete uncalled
CallDelete ==
    \E id \in Ids :
        LET p == single_path(id)
        IN  /\ requests' = IF p.exc # "" THEN <<>>
                           ELSE <<Request("DELETE", p.url)>>
            /\ mlast' = [NoManagerCall EXCEPT !.op = "delete", !.id = id,
                                               !.exc = p.exc]
            /\ UNCHANGED <<authVars, cli>>

\* _create(url, body) with the url of the collection or of one resource
CallCreate ==
    \E body \in WriteBodies, id \in {None, "u1"} :
        LET r == create(body)
        IN  /\ requests' = <<Request("POST", path(id))>>
            /\ mlast' = [NoManagerCall EXCEPT !.op = "_create", !.id = id,
                                               !.body = body,
                                               !.exc = r.exc, !.ret = r.ret]
            /\ UNCHANGED <<authVars, cli>>

\* _update(url, body) with the url of the collection or of one resource
CallUpdate ==
    \E body \in WriteBodies, id \in {None, "u1"} :
        LET r == update(body)
        IN  /\ requests' = <<Request("PUT", path(id))>>
            /\ mlast' = [NoManagerCall EXCEPT !.op = "_update", !.id = id,
                                               !.body = body,
                                               !.exc = r.exc, !.ret = r.ret]
            /\ UNCHANGED <<authVars, cli>>

ManagerNext ==
    \/ CallGet
    \/ CallList
    \/ CallDelete
    \/ CallCreate
    \/ CallUpdate

ManagerSpec == ManagerInit /\ [][ManagerNext]_vars

(***************************************************************************)
(* tuskarclient/shell.py: one run of main(), step by step. The command     *)
(* line is one of a few; the authentication arguments come from the        *)
(* environment defaults and are independent of it.                         *)
(***************************************************************************)
\* sys.argv[1:]
CommandLines ==
    {<<>>, <<"-h">>, <<"--help">>, <<"help">>, <<"help", "plan-list">>,
     <<"help", "bogus">>, <<"plan-list">>, <<"--help", "plan-list">>,
     <<"-h", "help", "bogus">>, <<"--bogus-option">>}

\* self.subparsers.choices
choices == {"help", "plan-list"}

\* the authentication arguments: '' where neither flag nor environment gives one
AuthArgs ==
    [os_auth_token : {None, "", "tok"}, os_username : {"", "admin"},
     os_password : {"", "secret"}, os_tenant_id : {"", "t1"},
     os_tenant_name : {"", "demo"}, os_auth_url : {"", "http://ks"},
     tuskar_url : {"", "http://tuskar"}]

\* self.parser.parse_args(self.raw_args): what the parser makes of the command
\* line; an unknown option ends in the parser's usage error, SystemExit(2)
parse_args(raw) ==
    LET rest == IF raw # <<>> /\ raw[1] \in {"-h", "--help"} THEN Tail(raw) ELSE raw
    IN  IF rest = <<>> \/ rest[1] \notin choices
        THEN [ok |-> FALSE, help |-> FALSE, func |-> None, command |-> None]
        ELSE [ok |-> TRUE,
              help |-> rest # raw,
              func |-> "do_" \o rest[1],
              command |-> IF rest[1] = "help" /\ Len(rest) > 1 THEN rest[2]
                          ELSE None]

Outcome(kind, value) == [kind |-> kind, value |-> value]
Running == Outcome("running", "")

\* do_help(self, args), command being getattr(args, 'command', None): the help
\* printed, or the CommandError raised
do_help(command) ==
    IF Truthy(command)
    THEN IF command \in choices
         THEN [printed |-> <<"help " \o command>>, outcome |-> Outcome("return", "0")]
         ELSE [printed |-> <<>>,
               outcome |-> Outcome("CommandError",
                                   "'" \o command \o "' is not a valid subcommand")]
    ELSE [printed |-> <<"help">>, outcome |-> Outcome("return", "0")]

\* the first test of run(): no raw_args at all, or just -h/--help
no_args_or_help(raw) == raw = <<>> \/ raw \in {<<"-h">>, <<"--help">>}

\* Mutant: only the help subcommand counts, the help option is ignored.
wants_help_subcommand_only(args) == args.func = "do_help"

\* the second test of run(): args.func == self.do_help or args.help
wants_help(args) == args.func = "do_help" \/ args.help

\* Mutant: the tenant is not checked.
ensure_auth_info_no_tenant(a) ==
    IF ~Truthy(a.os_auth_token)
    THEN IF ~Truthy(a.os_username) THEN "You must provide username via either --os-username or env[OS_USERNAME]"
         ELSE IF ~Truthy(a.os_password) THEN "You must provide password via either --os-password or env[OS_PASSWORD]"
         ELSE IF ~Truthy(a.os_auth_url) THEN "You must provide auth URL via either --os-auth-url or env[OS_AUTH_URL]"
         ELSE ""
    ELSE IF ~Truthy(a.tuskar_url) /\ ~Truthy(a.os_auth_url)
         THEN "You must provide either --tuskar-url or --os-auth-url or env[TUSKAR_URL] or env[OS_AUTH_URL]"
         ELSE ""

\* Mutant: the password is asked for before the username.
ensure_auth_info_password_first(a) ==
    IF ~Truthy(a.os_auth_token)
    THEN IF ~Truthy(a.os_password) THEN "You must provide password via either --os-password or env[OS_PASSWORD]"
         ELSE IF ~Truthy(a.os_username) THEN "You must provide username via either --os-username or env[OS_USERNAME]"
         ELSE IF ~Truthy(a.os_tenant_id) /\ ~Truthy(a.os_tenant_name)
         THEN "You must provide tenant via either --os-tenant-name or --os-tenant-id or env[OS_TENANT_NAME] or env[OS_TENANT_ID]"
         ELSE IF ~Truthy(a.os_auth_url) THEN "You must provide auth URL via either --os-auth-url or env[OS_AUTH_URL]"
         ELSE ""
    ELSE IF ~Truthy(a.tuskar_url) /\ ~Truthy(a.os_auth_url)
         THEN "You must provide either --tuskar-url or --os-auth-url or env[TUSKAR_URL] or env[OS_AUTH_URL]"
         ELSE ""

\* _ensure_auth_info(self, args): the message of the CommandError raised, ""
\* when none is
ensure_auth_info(a) ==
    IF ~Truthy(a.os_auth_token)
    THEN IF ~Truthy(a.os_username) THEN "You must provide username via either --os-username or env[OS_USERNAME]"
         ELSE IF ~Truthy(a.os_password) THEN "You must provide password via either --os-password or env[OS_PASSWORD]"
         ELSE IF ~Truthy(a.os_tenant_id) /\ ~Truthy(a.os_tenant_name)
         THEN "You must provide tenant via either --os-tenant-name or --os-tenant-id or env[OS_TENANT_NAME] or env[OS_TENANT_ID]"
         ELSE IF ~Truthy(a.os_auth_url) THEN "You must provide auth URL via either --os-auth-url or env[OS_AUTH_URL]"
         ELSE ""
    ELSE IF ~Truthy(a.tuskar_url) /\ ~Truthy(a.os_auth_url)
         THEN "You must provide either --tuskar-url or --os-auth-url or env[TUSKAR_URL] or env[OS_AUTH_URL]"
         ELSE ""

\* Mutant: an unexpected exception ends the process like a normal return.
main_exit_zero(outcome) ==
    CASE outcome.kind = "CommandError" ->
             [stderr |-> <<outcome.value>>, logged |-> FALSE, exit |-> 0]
      [] outcome.kind = "Exception" -> [stderr |-> <<>>, logged |-> TRUE, exit |-> 0]
      [] outcome.kind = "SystemExit" -> [stderr |-> <<>>, logged |-> FALSE, exit |-> 2]
      [] OTHER -> [stderr |-> <<>>, logged |-> FALSE, exit |-> 0]

\* main(): what becomes of the way run() ended. SystemExit is no Exception and
\* passes both handlers; the value run() returns is dropped.
main_exit(outcome) ==
    CASE outcome.kind = "CommandError" ->
             [stderr |-> <<outcome.value>>, logged |-> FALSE, exit |-> 0]
      [] outcome.kind = "Exception" -> [stderr |-> <<>>, logged |-> TRUE, exit |-> 1]
      [] outcome.kind = "SystemExit" -> [stderr |-> <<>>, logged |-> FALSE, exit |-> 2]
      [] OTHER -> [stderr |-> <<>>, logged |-> FALSE, exit |-> 0]

NoArgs == [ok |-> FALSE, help |-> FALSE, func |-> None, command |-> None]

ShellInit ==
    /\ opts = [n \in RangeOf(opt_names) |-> None]
    /\ ksclient = NoAttr
    /\ handshakes = 0
    /\ authCalls = 0
    /\ last = NoCall
    /\ requests = <<>>
    /\ mlast = NoManagerCall
    /\ \E raw \in CommandLines, auth \in AuthArgs :
           cli = [pc |-> "run", raw_args |-> raw, auth |-> auth, args |-> NoArgs,
                  events |-> <<>>, printed |-> <<>>, outcome |-> Running,
                  stderr |-> <<>>, logged |-> FALSE, exit |-> -1]

Ended(c, outcome) == [c EXCEPT !.pc = "main", !.outcome = outcome]

\* run(): no arguments or just -h/--help
RunHelpNoArgs ==
    /\ cli.pc = "run" /\ no_args_or_help(cli.raw_args)
    /\ cli' = [Ended(cli, do_help(None).outcome) EXCEPT
                   !.printed = do_help(None).printed]
    /\ UNCHANGED <<authVars, managerVars>>

\* run(): args = self.parser.parse_args(self.raw_args)
RunParseArgs ==
    /\ cli.pc = "run" /\ ~no_args_or_help(cli.raw_args)
    /\ LET args == parse_args(cli.raw_args)
       IN  cli' = IF args.ok
                  THEN [cli EXCEPT !.pc = "parsed", !.args = args,
                                   !.events = Append(@, "parse_args")]
                  ELSE Ended(cli, Outcome("SystemExit", "2"))
    /\ UNCHANGED <<authVars, managerVars>>

\* run(): _setup_logging, then help for the help subcommand or option
RunHelpOrGoOn ==
    /\ cli.pc = "parsed"
    /\ cli' = IF wants_help(cli.args)
              THEN [Ended(cli, do_help(cli.args.command).outcome) EXCEPT
                        !.printed = do_help(cli.args.command).printed]
              ELSE [cli EXCEPT !.pc = "auth"]
    /\ UNCHANGED <<authVars, managerVars>>

\* run(): self._ensure_auth_info(args)
RunEnsureAuthInfo ==
    /\ cli.pc = "auth"
    /\ LET msg == ensure_auth_info(cli.auth)
           c == [cli EXCEPT !.events = Append(@, "_ensure_auth_info")]
       IN  cli' = IF msg # "" THEN Ended(c, Outcome("CommandError", msg))
                  ELSE [c EXCEPT !.pc = "client"]
    /\ UNCHANGED <<authVars, managerVars>>

\* run(): client.get_client(...), which returns a client or raises
RunGetClient ==
    /\ cli.pc = "client"
    /\ \E raised \in BOOLEAN :
           LET c == [cli EXCEPT !.events = Append(@, "get_client")]
           IN  cli' = IF raised THEN Ended(c, Outcome("Exception", "get_client"))
                      ELSE [c EXCEPT !.pc = "func"]
    /\ UNCHANGED <<authVars, managerVars>>

\* run(): args.func(tuskar_client, args), which returns or raises
RunFunc ==
    /\ cli.pc = "func"
    /\ \E outcome \in {Outcome("return", "None"),
                       Outcome("CommandError", "command failed"),
                       Outcome("Exception", "func")} :
           cli' = Ended([cli EXCEPT !.events = Append(@, "func")], outcome)
    /\ UNCHANGED <<authVars, managerVars>>

\* main(): the handlers around run(), and the end of the process
MainExit ==
    /\ cli.pc = "main"
    /\ LET e == main_exit(cli.outcome)
       IN  cli' = [cli EXCEPT !.pc = "exited", !.stderr = e.stderr,
                              !.logged = e.logged, !.exit = e.exit]
    /\ UNCHANGED <<authVars, managerVars>>

ShellNext ==
    \/ RunHelpNoArgs
    \/ RunParseArgs
    \/ RunHelpOrGoOn
    \/ RunEnsureAuthInfo
    \/ RunGetClient
    \/ RunFunc
    \/ MainExit

ShellSpec == ShellInit /\ [][ShellNext]_vars

(***************************************************************************)
(* tuskarclient/osc/v2/plan.py: one run of a plan command's take_action,   *)
(* step by step, against a service that answers each request as it likes.  *)
(***************************************************************************)
\* option arguments of one `plan set` command line
MaxArgs == 2
\* entries of a template mapping
MaxTemplates == 2

\* a role and a plan, as the service returns them
RoleDoc(name, uuid) ==
    PyDict(<<Entry("name", PyStr(name)), Entry("uuid", PyStr(uuid))>>)
PlanDoc(uuid, name, extra) ==
    PyDict(<<Entry("uuid", PyStr(uuid)), Entry("name", PyStr(name))>> \o extra)

\* the plans the service holds in the model: one with parameters and two roles,
\* one with neither
Plans ==
    {PlanDoc("u1", "overcloud",
             <<Entry("parameters", PyList(<<PyStr("compute-1::Flavor")>>)),
               Entry("roles", PyList(<<RoleDoc("compute", "r1"),
                                       RoleDoc("control", "r2")>>))>>),
     PlanDoc("u1", "overcloud", <<Entry("roles", PyList(<<>>))>>)}

\* the plan the service returns from an update
UpdatedPlan ==
    PlanDoc("u1", "overcloud",
            <<Entry("parameters", PyList(<<PyStr("updated")>>)),
              Entry("roles", PyList(<<RoleDoc("compute", "r1"),
                                      RoleDoc("control", "r2")>>))>>)

\* plan.roles, and [r.name for r in plan.roles]
roles_of(plan) == GetItem(plan, "roles").items
role_names(plan) == [i \in DOMAIN roles_of(plan) |-> GetItem(roles_of(plan)[i], "name").s]

\* d[key] = v on a dict: in place for a key it has, at the end otherwise
SetItem(d, key, v) ==
    IF HasKey(d, key)
    THEN PyDict([i \in DOMAIN d.items |->
                     IF d.items[i].s = key THEN Entry(key, v) ELSE d.items[i]])
    ELSE PyDict(Append(d.items, Entry(key, v)))

\* the keys of the documents, sorted
SortedKeys == <<"name", "parameters", "roles", "uuid">>

\* dict2columns(data): the names, sorted, and their values
Columns(names, values) == [names |-> names, values |-> values]
NoColumns == Columns(<<>>, <<>>)
RECURSIVE columns_in(_, _)
columns_in(keys, d) ==
    IF keys = <<>> THEN NoColumns
    ELSE LET rest == columns_in(Tail(keys), d)
         IN  IF HasKey(d, Head(keys))
             THEN Columns(<<Head(keys)>> \o rest.names,
                          <<GetItem(d, Head(keys))>> \o rest.values)
             ELSE rest
dict2columns(d) == columns_in(SortedKeys, d)

\* one option argument of plan set: -P KEY=VALUE, -F ROLE=FLAVOR, -S ROLE=COUNT
Arg(opt, key, value) == [opt |-> opt, key |-> key, value |-> value]
SetOptions ==
    {Arg("-P", "a", "1"), Arg("-P", "b", "2"), Arg("-F", "compute", "m1"),
     Arg("-F", "ghost", "m1"), Arg("-S", "control", "3")}

\* action='append': the values of one option, in the order given (None, which
\* the marshaler takes for no pairs, when the option is not given)
RECURSIVE collect(_, _)
collect(argv, opt) ==
    IF argv = <<>> THEN <<>>
    ELSE (IF Head(argv).opt = opt THEN <<Head(argv)>> ELSE <<>>)
         \o collect(Tail(argv), opt)

PatchOp(op, target, value) == [op |-> op, path |-> target, value |-> value]
PatchBuilt(ops) == [exc |-> "", patch |-> ops]
PatchFailed(e) == [exc |-> e, patch |-> <<>>]

\* utils.parameters_args_to_patch(parameters): one "add" operation per pair,
\* against the parameters path, in the order of the pairs
parameters_args_to_patch(pairs) ==
    PatchBuilt([i \in DOMAIN pairs |->
                    PatchOp("add", "parameters/" \o pairs[i].key, pairs[i].value)])

\* the identifier of the role of that name
role_id(roles, name) ==
    GetItem(roles[CHOOSE i \in DOMAIN roles : GetItem(roles[i], "name").s = name],
            "uuid").s

\* utils.args_to_patch(args, roles, field): one operation per pair, on the path
\* of the named role's identifier and the field, in the order of the pairs; a
\* name that is no role's fails the whole batch
args_to_patch(pairs, roles, field) ==
    IF \E i \in DOMAIN pairs :
           \A j \in DOMAIN roles : GetItem(roles[j], "name").s # pairs[i].key
    THEN PatchFailed("RoleNotFound")
    ELSE PatchBuilt([i \in DOMAIN pairs |->
                         PatchOp("replace", role_id(roles, pairs[i].key) \o "::" \o field,
                                 pairs[i].value)])

\* Mutant: a failed lookup is swallowed and its batch left out.
build_patch_skipping_failures(argv, roles) ==
    PatchBuilt(parameters_args_to_patch(collect(argv, "-P")).patch
               \o args_to_patch(collect(argv, "-F"), roles, "Flavor").patch
               \o args_to_patch(collect(argv, "-S"), roles, "count").patch)

\* Mutant: the flavors go before the parameters.
build_patch_flavors_first(argv, roles) ==
    LET P == parameters_args_to_patch(collect(argv, "-P"))
        F == args_to_patch(collect(argv, "-F"), roles, "Flavor")
        S == args_to_patch(collect(argv, "-S"), roles, "count")
    IN  IF F.exc # "" THEN F
        ELSE IF S.exc # "" THEN S
        ELSE PatchBuilt(F.patch \o P.patch \o S.patch)

\* SetManagementPlan.take_action: patch = [] and the three patch.extend(...)
build_patch(argv, roles) ==
    LET P == parameters_args_to_patch(collect(argv, "-P"))
        F == args_to_patch(collect(argv, "-F"), roles, "Flavor")
        S == args_to_patch(collect(argv, "-S"), roles, "count")
    IN  IF F.exc # "" THEN F
        ELSE IF S.exc # "" THEN S
        ELSE PatchBuilt(P.patch \o F.patch \o S.patch)

\* Mutant: the update is sent whatever the patch.
should_patch_always(patch) == TRUE

\* SetManagementPlan.take_action: if len(patch) > 0
should_patch(patch) == Len(patch) > 0

NoUpdateWarning ==
    "WARNING: No valid arguments passed. No update operation has been performed."

\* a request of the plans manager: the method, the plan or name, the patch sent
PlanRequest(method, target, patch) ==
    [method |-> method, target |-> target, patch |-> patch]

\* Mutant: every error of the create call becomes the command error.
create_error_all_conflicts(e, name) ==
    Outcome("CommandError", "Plan with name \"" \o name \o "\" already exists.")

\* CreateManagementPlan.take_action: except exc.Conflict
create_error(e, name) ==
    IF e = "Conflict"
    THEN Outcome("CommandError", "Plan with name \"" \o name \o "\" already exists.")
    ELSE Outcome(e, "")

SuppressionNotice == "Parameter output suppressed. Use --long to display them."

\* Mutant: --long is ignored and the short form always shown.
show_dict_always_short(plan, long) ==
    LET d == IF HasKey(plan, "parameters")
             THEN SetItem(plan, "parameters", PyStr(SuppressionNotice))
             ELSE plan
    IN  SetItem(d, "roles", PyStr(Join(", ", role_names(plan))))

\* ShowManagementPlan.take_action: plan_dict as it is displayed
show_dict(plan, long) ==
    IF ~long
    THEN LET d == IF HasKey(plan, "parameters")
                  THEN SetItem(plan, "parameters", PyStr(SuppressionNotice))
                  ELSE plan
         IN  SetItem(d, "roles", PyStr(Join(", ", role_names(plan))))
    ELSE plan

(***************************************************************************)
(* The file system plan download writes to. A path is the sequence of its  *)
(* components from the root; a node is a directory or a file with content. *)
(***************************************************************************)
Dir(parts) == [path |-> parts, kind |-> "dir", content |-> ""]
File(parts, content) == [path |-> parts, kind |-> "file", content |-> content]

\* the working directory and parsed_args.output_dir, given relative to it
cwd == <<"cwd">>
output_dir == cwd \o <<"out">>

\* the path the system opens: each ".." drops the component before it
RECURSIVE resolve(_, _)
resolve(done, parts) ==
    IF parts = <<>> THEN done
    ELSE IF Head(parts) = ".."
    THEN resolve(IF done = <<>> THEN <<>> ELSE SubSeq(done, 1, Len(done) - 1),
                 Tail(parts))
    ELSE resolve(Append(done, Head(parts)), Tail(parts))

IsPrefix(a, b) == Len(a) <= Len(b) /\ SubSeq(b, 1, Len(a)) = a
parent(parts) == SubSeq(parts, 1, Len(parts) - 1)

\* os.path.exists, os.path.isdir
exists(fs, parts) == \E n \in fs : n.path = resolve(<<>>, parts)
isdir(fs, parts) == \E n \in fs : n.path = resolve(<<>>, parts) /\ n.kind = "dir"

\* shutil.rmtree(path)
rmtree(fs, parts) == {n \in fs : ~IsPrefix(resolve(<<>>, parts), n.path)}

FsOk(fs) == [exc |-> "", fs |-> fs]
FsError(fs) == [exc |-> "OSError", fs |-> fs]

\* os.mkdir(path): the parent must be a directory and the path not exist
mkdir(fs, parts) ==
    LET q == resolve(<<>>, parts)
    IN  IF exists(fs, q) \/ ~isdir(fs, parent(q)) THEN FsError(fs)
        ELSE FsOk(fs \cup {Dir(q)})

\* os.makedirs(path): every missing directory down to the path; it fails on a
\* file in the way and on a path that exists
makedirs(fs, parts) ==
    LET q == resolve(<<>>, parts)
        ancestors == {SubSeq(q, 1, k) : k \in 0..Len(q)}
    IN  IF exists(fs, q) \/ \E a \in ancestors : exists(fs, a) /\ ~isdir(fs, a)
        THEN FsError(fs)
        ELSE FsOk(fs \cup {Dir(a) : a \in {b \in ancestors : ~exists(fs, b)}})

\* open(filename, 'w+') and write(content): the file is created or truncated;
\* it fails on a directory and where the parent is no directory
write_file(fs, parts, content) ==
    LET q == resolve(<<>>, parts)
    IN  IF isdir(fs, q) \/ ~isdir(fs, parent(q)) THEN FsError(fs)
        ELSE FsOk({n \in fs : n.path # q} \cup {File(q, content)})

\* a template name: absolute or not, and its components
Name(abs, parts) == [abs |-> abs, parts |-> parts]
TemplateNames ==
    {Name(FALSE, <<"plan.yaml">>), Name(FALSE, <<"roles", "compute.yaml">>),
     Name(FALSE, <<"roles">>), Name(FALSE, <<"..", "escape.yaml">>),
     Name(TRUE, <<"abs.yaml">>)}

\* the content the service gives the template of that name
content_of(name) == "template " \o name.parts[Len(name.parts)]

\* a template mapping, in the order its items are iterated: distinct names
TemplateMaps ==
    {m \in SeqsUpTo(TemplateNames, MaxTemplates) :
         \A i, j \in DOMAIN m : i # j => m[i] # m[j]}

\* os.path.dirname(template_name)
dirname(name) == Name(name.abs, parent(name.parts))

\* os.path.join(output_dir, name): an absolute name replaces the directory
join(dir, name) == IF name.abs THEN name.parts ELSE dir \o name.parts

\* bool(template_dir): "" is the only falsy directory name
dir_truthy(d) == d.abs \/ d.parts # <<>>

\* DownloadManagementPlan.take_action: the body of the loop, for one template
write_template(fs, name) ==
    LET template_dir == dirname(name)
        output_template_dir == join(output_dir, template_dir)
        made == IF dir_truthy(template_dir) /\ ~exists(fs, output_template_dir)
                THEN makedirs(fs, output_template_dir)
                ELSE FsOk(fs)
    IN  IF made.exc # "" THEN made
        ELSE write_file(made.fs, join(output_dir, name), content_of(name))

\* Mutant: an existing output directory is kept.
prepare_output_dir_keeping(fs) ==
    IF isdir(fs, output_dir) THEN FsOk(fs) ELSE mkdir(fs, output_dir)

\* DownloadManagementPlan.take_action: rmtree of an existing directory, mkdir
prepare_output_dir(fs) ==
    mkdir(IF isdir(fs, output_dir) THEN rmtree(fs, output_dir) ELSE fs, output_dir)

\* the file system before the command: no output directory, one with files of
\* an earlier download, or a regular file of that name
BaseFs == {Dir(<<>>), Dir(cwd)}
FileSystems ==
    {BaseFs,
     BaseFs \cup {Dir(output_dir), File(output_dir \o <<"old.yaml">>, "old"),
                  Dir(output_dir \o <<"roles">>),
                  File(output_dir \o <<"roles", "compute.yaml">>, "old")},
     BaseFs \cup {File(output_dir, "old")}}

\* one run of a plan command: its parsed arguments, the file system it starts
\* on, and what it has fetched, sent, written and returned so far
PlanRun(command, argv, long, name, fs) ==
    [pc |-> command, command |-> command, argv |-> argv, long |-> long,
     name |-> name, fs0 |-> fs, fs |-> fs, plan |-> PyNone, patch |-> <<>>,
     templates |-> <<>>, todo |-> <<>>, requests |-> <<>>, answer |-> "",
     stderr |-> <<>>, outcome |-> Running, result |-> NoColumns]

PlanRuns ==
    {PlanRun("create", <<>>, FALSE, n, BaseFs) : n \in {"overcloud", "lab"}}
    \cup {PlanRun("set", a, FALSE, "", BaseFs) : a \in SeqsUpTo(SetOptions, MaxArgs)}
    \cup {PlanRun("show", <<>>, l, "", BaseFs) : l \in BOOLEAN}
    \cup {PlanRun("download", <<>>, FALSE, "", fs) : fs \in FileSystems}

\* the errors the service answers a request with
ServiceErrors == {"Conflict", "NotFound"}

PlanInit ==
    /\ opts = [n \in RangeOf(opt_names) |-> None]
    /\ ksclient = NoAttr
    /\ handshakes = 0
    /\ authCalls = 0
    /\ last = NoCall
    /\ requests = <<>>
    /\ mlast = NoManagerCall
    /\ cli \in PlanRuns

\* a request sent and the service's answer to it: "ok" or the error
Sent(c, method, target, patch, answer) ==
    [c EXCEPT !.requests = Append(@, PlanRequest(method, target, patch)),
              !.answer = answer]
Raised(c, outcome) == [c EXCEPT !.pc = "done", !.outcome = outcome]
Finished(c, columns) ==
    [c EXCEPT !.pc = "done", !.outcome = Outcome("return", ""), !.result = columns]

\* CreateManagementPlan.take_action
CreatePlan ==
    /\ cli.pc = "create"
    /\ \/ \E plan \in Plans :
              cli' = Finished([Sent(cli, "POST", cli.name, <<>>, "ok") EXCEPT
                                   !.plan = plan],
                              dict2columns(plan))
       \/ \E e \in ServiceErrors :
              cli' = Raised(Sent(cli, "POST", cli.name, <<>>, e),
                            create_error(e, cli.name))
    /\ UNCHANGED <<authVars, managerVars>>

\* SetManagementPlan.take_action: plan = client.plans.get(plan_uuid)
SetGetPlan ==
    /\ cli.pc = "set"
    /\ \/ \E plan \in Plans :
              cli' = [Sent(cli, "GET", "u1", <<>>, "ok") EXCEPT
                          !.pc = "set:build", !.plan = plan]
       \/ \E e \in ServiceErrors :
              cli' = Raised(Sent(cli, "GET", "u1", <<>>, e), Outcome(e, ""))
    /\ UNCHANGED <<authVars, managerVars>>

\* SetManagementPlan.take_action: roles = plan.roles and the patch built
SetBuildPatch ==
    /\ cli.pc = "set:build"
    /\ LET built == build_patch(cli.argv, roles_of(cli.plan))
       IN  cli' = IF built.exc # "" THEN Raised(cli, Outcome(built.exc, ""))
                  ELSE [cli EXCEPT !.pc = "set:send", !.patch = built.patch]
    /\ UNCHANGED <<authVars, managerVars>>

\* SetManagementPlan.take_action: plan = client.plans.patch(plan_uuid, patch)
SetSendPatch ==
    /\ cli.pc = "set:send" /\ should_patch(cli.patch)
    /\ \/ cli' = Finished(Sent(cli, "PATCH", "u1", cli.patch, "ok"),
                          dict2columns(UpdatedPlan))
       \/ \E e \in ServiceErrors :
              cli' = Raised(Sent(cli, "PATCH", "u1", cli.patch, e), Outcome(e, ""))
    /\ UNCHANGED <<authVars, managerVars>>

\* SetManagementPlan.take_action: the warning of the else branch
SetWarnNoUpdate ==
    /\ cli.pc = "set:send" /\ ~should_patch(cli.patch)
    /\ cli' = Finished([cli EXCEPT !.stderr = Append(@, NoUpdateWarning)],
                        dict2columns(cli.plan))
    /\ UNCHANGED <<authVars, managerVars>>

\* ShowManagementPlan.take_action
ShowPlan ==
    /\ cli.pc = "show"
    /\ \/ \E plan \in Plans :
              cli' = Finished([Sent(cli, "GET", "u1", <<>>, "ok") EXCEPT !.plan = plan],
                              dict2columns(show_dict(plan, cli.long)))
       \/ \E e \in ServiceErrors :
              cli' = Raised(Sent(cli, "GET", "u1", <<>>, e), Outcome(e, ""))
    /\ UNCHANGED <<authVars, managerVars>>

\* DownloadManagementPlan.take_action: the output directory made anew
DownloadPrepareDir ==
    /\ cli.pc = "download"
    /\ LET made == prepare_output_dir(cli.fs)
       IN  cli' = IF made.exc # "" THEN Raised(cli, Outcome(made.exc, ""))
                  ELSE [cli EXCEPT !.pc = "download:fetch", !.fs = made.fs]
    /\ UNCHANGED <<authVars, managerVars>>

\* DownloadManagementPlan.take_action: templates = client.plans.templates(uuid)
DownloadFetchTemplates ==
    /\ cli.pc = "download:fetch"
    /\ \/ \E m \in TemplateMaps :
              cli' = [Sent(cli, "GET", "u1/templates", <<>>, "ok") EXCEPT
                          !.pc = "download:write", !.templates = m, !.todo = m]
       \/ \E e \in ServiceErrors :
              cli' = Raised(Sent(cli, "GET", "u1/templates", <<>>, e), Outcome(e, ""))
    /\ UNCHANGED <<authVars, managerVars>>

\* DownloadManagementPlan.take_action: one turn of the loop over the templates
DownloadWriteTemplate ==
    /\ cli.pc = "download:write" /\ cli.todo # <<>>
    /\ LET written == write_template(cli.fs, Head(cli.todo))
       IN  cli' = IF written.exc # ""
                  THEN Raised([cli EXCEPT !.fs = written.fs], Outcome(written.exc, ""))
                  ELSE [cli EXCEPT !.fs = written.fs, !.todo = Tail(@)]
    /\ UNCHANGED <<authVars, managerVars>>

\* DownloadManagementPlan.take_action: the loop is over
DownloadFinish ==
    /\ cli.pc = "download:write" /\ cli.todo = <<>>
    /\ cli' = Finished(cli, NoColumns)
    /\ UNCHANGED <<authVars, managerVars>>

PlanNext ==
    \/ CreatePlan
    \/ SetGetPlan
    \/ SetBuildPatch
    \/ SetSendPatch
    \/ SetWarnNoUpdate
    \/ ShowPlan
    \/ DownloadPrepareDir
    \/ DownloadFetchTemplates
    \/ DownloadWriteTemplate
    \/ DownloadFinish

PlanSpec == PlanInit /\ [][PlanNext]_vars

(***************************************************************************)
(* tuskarclient/v1/overclouds_shell.py: overcloud-delete commands run one  *)
(* after another against a service holding some overclouds. The service    *)
(* answers a lookup with the overcloud, if it holds it, or with an error,   *)
(* and a delete by deleting or with an error.                              *)
(***************************************************************************)
\* overcloud-delete commands in one behaviour
MaxCommands == 2

\* args.id, and the overclouds of the service
OvercloudIds == {"1", "2", "3"}
overcloud_name(id) == "overcloud-" \o id

\* u'Deleted Overcloud "%s".' % overcloud.name
DeletedMessage(name) == "Deleted Overcloud \"" \o name \o "\"."

\* Mutant: the delete is sent whether or not the lookup found the overcloud.
after_delete_anyway(step, raised) ==
    CASE step = "find_resource" -> "delete"
      [] step = "delete" -> IF raised THEN "done" ELSE "print"
      [] OTHER -> "done"

\* do_overcloud_delete: the statement after that one; an exception leaves the
\* function
after(step, raised) ==
    IF raised THEN "done"
    ELSE CASE step = "find_resource" -> "delete"
           [] step = "delete" -> "print"
           [] OTHER -> "done"

\* one overcloud-delete command on a service holding those overclouds
DeleteRun(id, store, runs) ==
    [pc |-> "find_resource", id |-> id, store |-> store, runs |-> runs,
     events |-> <<>>, answers |-> <<>>, name |-> None, outfile |-> <<>>,
     outcome |-> Running]

OvercloudInit ==
    /\ opts = [n \in RangeOf(opt_names) |-> None]
    /\ ksclient = NoAttr
    /\ handshakes = 0
    /\ authCalls = 0
    /\ last = NoCall
    /\ requests = <<>>
    /\ mlast = NoManagerCall
    /\ \E id \in OvercloudIds, store \in SUBSET OvercloudIds :
           cli = DeleteRun(id, store, 1)

Called(c, call, answer) ==
    [c EXCEPT !.events = Append(@, call), !.answers = Append(@, answer),
              !.pc = after(call, answer # "ok"),
              !.outcome = IF answer # "ok" /\ after(call, TRUE) = "done"
                          THEN Outcome(answer, "") ELSE @]

\* do_overcloud_delete: overcloud = utils.find_resource(tuskar.overclouds, args.id)
OvercloudFind ==
    /\ cli.pc = "find_resource"
    /\ \/ /\ cli.id \in cli.store
          /\ cli' = [Called(cli, "find_resource", "ok") EXCEPT
                         !.name = overcloud_name(cli.id)]
       \/ /\ cli.id \notin cli.store
          /\ cli' = Called(cli, "find_resource", "NotFound")
       \/ cli' = Called(cli, "find_resource", "ServiceError")
    /\ UNCHANGED <<authVars, managerVars>>

\* do_overcloud_delete: tuskar.overclouds.delete(args.id)
OvercloudDelete ==
    /\ cli.pc = "delete"
    /\ \/ cli' = [Called(cli, "delete", "ok") EXCEPT !.store = @ \ {cli.id}]
       \/ cli' = Called(cli, "delete", "ServiceError")
    /\ UNCHANGED <<authVars, managerVars>>

\* do_overcloud_delete: print(u'Deleted Overcloud "%s".' % overcloud.name)
OvercloudPrint ==
    /\ cli.pc = "print"
    /\ cli' = [cli EXCEPT !.pc = after("print", FALSE),
                          !.outfile = Append(@, DeletedMessage(cli.name)),
                          !.outcome = Outcome("return", "None")]
    /\ UNCHANGED <<authVars, managerVars>>

\* the next overcloud-delete command, on the service as the last one left it
OvercloudAgain ==
    /\ cli.pc = "done" /\ cli.runs < MaxCommands
    /\ \E id \in OvercloudIds : cli' = DeleteRun(id, cli.store, cli.runs + 1)
    /\ UNCHANGED <<authVars, managerVars>>

OvercloudNext ==
    \/ OvercloudFind
    \/ OvercloudDelete
    \/ OvercloudPrint
    \/ OvercloudAgain

OvercloudSpec == OvercloudInit /\ [][OvercloudNext]_vars

(***************************************************************************)
(* Claims about KeystoneAuthPlugin, checked under AuthSpec.                *)
(***************************************************************************)
TokenMode == Truthy(opts.token) /\ Truthy(opts.endpoint)
PasswordMode == opts.token = None /\ ksclient # NoAttr
HasTenant == Truthy(opts.tenant_id) \/ Truthy(opts.tenant_name)
PasswordFields ==
    Truthy(opts.username) /\ Truthy(opts.password) /\ Truthy(opts.auth_url)
Returned == last.op = "token_and_endpoint"
Checked == last.op = "sufficient_options"
TenantError == AuthPluginOptionsMissing(<<"tenant_id or tenant_name">>)

\* C1: when token and endpoint are both set, token_and_endpoint returns exactly
\* (token, endpoint) of the record, whatever the other options and the arguments
\* are, and neither _do_authenticate nor token_and_endpoint contacts the identity
\* service, consults the catalog or sets self._ksclient.
C1_TokenModeReturnsRecordPair ==
    TokenMode =>
        /\ handshakes = 0
        /\ ksclient = NoAttr
        /\ Returned => /\ last.token = opts.token
                       /\ last.endpoint = opts.endpoint
                       /\ last.lookups = <<>>

\* C1 witness: token mode, authenticated, then resolved with arguments given.
C1_Witness ==
    /\ TokenMode /\ Returned /\ authCalls >= 1
    /\ last.service_type = "metering" /\ last.endpoint_type = "publicURL"
    /\ Truthy(opts.username) /\ Truthy(opts.auth_url)

\* C2: sufficient_options succeeds exactly when token and endpoint are both
\* present, or token is absent and username, password, auth_url and one of
\* tenant_id/tenant_name are present; otherwise it raises
\* AuthPluginOptionsMissing, and with a token set the error names exactly the
\* missing endpoint, whatever the password-mode options are.
C2_SufficientExactlyWhen ==
    Checked =>
        /\ ~last.error.raised <=>
               \/ Truthy(opts.token) /\ Truthy(opts.endpoint)
               \/ ~Truthy(opts.token) /\ PasswordFields /\ HasTenant
        /\ (Truthy(opts.token) /\ last.error.raised) =>
               /\ ~Truthy(opts.endpoint)
               /\ last.error.opt_names = <<"endpoint">>

\* C2 witness: a token without an endpoint, all password-mode options present.
C2_Witness ==
    /\ Checked /\ Truthy(opts.token) /\ ~Truthy(opts.endpoint)
    /\ PasswordFields /\ HasTenant /\ last.error.raised

\* C3: with no token and neither tenant option, sufficient_options raises the
\* error naming "tenant_id or tenant_name", whether or not username, password
\* and auth_url are present: the tenant check comes before the other three.
C3_TenantErrorFirst ==
    (Checked /\ ~Truthy(opts.token) /\ ~HasTenant) => last.error = TenantError

\* C3 witness: no token, no tenant, and username and auth_url missing as well.
C3_Witness ==
    /\ Checked /\ ~Truthy(opts.token) /\ ~HasTenant
    /\ ~Truthy(opts.username) /\ ~Truthy(opts.auth_url) /\ last.error.raised

\* C4 as stated: with no token and no auth_url, sufficient_options raises an
\* error that names auth_url among the missing options.
C4_Original ==
    (Checked /\ ~Truthy(opts.token) /\ ~Truthy(opts.auth_url)) =>
        /\ last.error.raised
        /\ "auth_url" \in RangeOf(last.error.opt_names)

\* C4 as amended: with no token and no auth_url, sufficient_options raises; the
\* error names auth_url among the missing options when one of
\* tenant_id/tenant_name is present, and is the tenant error otherwise.
C4_Amended ==
    (Checked /\ ~Truthy(opts.token) /\ ~Truthy(opts.auth_url)) =>
        /\ last.error.raised
        /\ HasTenant => "auth_url" \in RangeOf(last.error.opt_names)
        /\ ~HasTenant => last.error = TenantError

\* C4 witness: only auth_url is missing, and the error names it.
C4_Witness ==
    /\ Checked /\ ~Truthy(opts.token) /\ ~Truthy(opts.auth_url) /\ HasTenant
    /\ Truthy(opts.username) /\ Truthy(opts.password)
    /\ last.error = AuthPluginOptionsMissing(<<"auth_url">>)

\* C5: in password mode an endpoint given in the options is returned together
\* with the session's token and the catalog is not consulted; the catalog is
\* looked up only when no endpoint is given.
C5_EndpointOverride ==
    (PasswordMode /\ Returned) =>
        /\ last.token = ksclient.auth_token
        /\ Truthy(opts.endpoint) =>
               last.endpoint = opts.endpoint /\ last.lookups = <<>>
        /\ last.lookups # <<>> => ~Truthy(opts.endpoint)

\* C5 witness: password mode with an endpoint override, resolved.
C5_Witness ==
    PasswordMode /\ Returned /\ Truthy(opts.endpoint) /\ last.token = "ks-token-1"

\* C6 as stated: in password mode with no endpoint override the catalog is
\* looked up by (service_type, endpoint_type), endpoint_type defaulting to
\* "management" when unspecified.
C6_Original ==
    (PasswordMode /\ Returned /\ ~Truthy(opts.endpoint)) =>
        last.lookups =
            << <<last.service_type, Or(last.endpoint_type, "management")>> >>

\* C6 as amended: in password mode with no endpoint override the catalog is
\* looked up once, by (service_type, endpoint_type), where it is service_type
\* that defaults to "management" when unspecified and endpoint_type is passed
\* on as given; the URL found is the endpoint returned.
C6_Amended ==
    (PasswordMode /\ Returned /\ ~Truthy(opts.endpoint)) =>
        /\ last.lookups =
               << <<Or(last.service_type, "management"), last.endpoint_type>> >>
        /\ last.endpoint =
               url_for(Or(last.service_type, "management"), last.endpoint_type)

\* C6 witness: a lookup with the service type left unspecified.
C6_Witness ==
    /\ PasswordMode /\ Returned /\ ~Truthy(opts.endpoint)
    /\ last.service_type = None /\ last.endpoint_type = "publicURL"
    /\ last.endpoint = "http://catalog/management/publicURL"

\* C7 as stated: over any sequence of _do_authenticate and token_and_endpoint
\* calls the handshake with the identity service is performed at most once.
C7_Original == handshakes <= 1

\* C7 as amended: the handshake is lazy (none before the first _do_authenticate
\* call, none in token_and_endpoint, which uses the session cached last), but
\* every _do_authenticate call with token None performs a new handshake and
\* replaces the cached session: the handshakes number the _do_authenticate
\* calls, not at most one. With a token that is not None none is performed.
C7_Amended ==
    /\ handshakes = (IF opts.token = None THEN authCalls ELSE 0)
    /\ ksclient = (IF handshakes = 0 THEN NoAttr
                   ELSE Client(ks_kwargs(opts), handshakes))
    /\ (Returned /\ ksclient # NoAttr /\ ~TokenMode) =>
           last.token = ksclient.auth_token

\* C7 witness: two _do_authenticate calls, then the second session is reused.
C7_Witness ==
    authCalls = 2 /\ handshakes = 2 /\ Returned /\ last.token = "ks-token-2"

(***************************************************************************)
(* Claims about Manager, checked under ManagerSpec.                        *)
(***************************************************************************)
Deleted == mlast.op = "delete"
Got == mlast.op = "_get"
Listed == mlast.op = "_list"
KeyGiven == Truthy(mlast.response_key)
\* a response key is given and the body is an object that lacks it
KeyAbsent ==
    KeyGiven /\ mlast.body.t = "dict" /\ ~HasKey(mlast.body, mlast.response_key)

\* C8: a delete addressed through _single_path with a falsy id (None, "") fails
\* with ValueError and issues no HTTP request; no DELETE is ever sent to the
\* collection path.
C8_DeleteNeedsId ==
    /\ (Deleted /\ ~Truthy(mlast.id)) =>
           mlast.exc = "ValueError" /\ requests = <<>>
    /\ \A i \in DOMAIN requests :
           requests[i].method = "DELETE" => requests[i].url # path(None)

\* C8 witness: a delete with the empty string as id has been refused.
C8_Witness == Deleted /\ mlast.id = "" /\ mlast.exc = "ValueError"

\* C9: _get issues exactly one GET and returns the first Resource constructed,
\* or None without an exception when the response yields no resource: when the
\* body is falsy or the requested response key is absent from it.
C9_GetOneOrNone ==
    Got =>
        /\ requests = <<Request("GET", path(mlast.id))>>
        /\ (~PyTruthy(mlast.body) \/ KeyAbsent) =>
               mlast.exc = "" /\ mlast.ret = PyNone
        /\ (mlast.exc = "" /\ mlast.ret # PyNone) => mlast.ret.t = "Resource"

\* the array _list reads: the body, or the value under the response key
ResponseArray ==
    IF KeyGiven THEN GetItem(mlast.body, mlast.response_key) ELSE mlast.body
\* _list was called with expect_single left False on a response that holds an
\* array, under the response key when one is given
ListedArray ==
    /\ Listed /\ mlast.expect_single = "False"
    /\ KeyGiven => mlast.body.t = "dict" /\ HasKey(mlast.body, mlast.response_key)
    /\ ResponseArray.t = "list"

C11_CreateUpdateWrapBody ==
    (mlast.op \in {"_create", "_update"}) =>
        /\ requests = <<Request(IF mlast.op = "_create" THEN "POST" ELSE "PUT",
                                path(mlast.id))>>
        /\ mlast.exc = ""
        /\ mlast.ret = (IF mlast.body \in {Doc("u1"), Doc("u2")}
                        THEN Resource(mlast.body) ELSE PyNone)

\* C11 witness: a POST answered with an empty object, so nothing is returned.
C11_Witness ==
    mlast.op = "_create" /\ mlast.body = PyDict(<<>>) /\ mlast.ret = PyNone

(***************************************************************************)
(* Claims about the shell, checked under ShellSpec.                        *)
(***************************************************************************)
Happened(e) == \E i \in DOMAIN cli.events : cli.events[i] = e
Exited == cli.pc = "exited"

\* the authentication arguments do not suffice: without a token one of
\* username, password, tenant (id or name), auth URL is missing; with a token
\* both the tuskar URL and the auth URL are
InsufficientAuth ==
    IF Truthy(cli.auth.os_auth_token)
    THEN cli.auth.tuskar_url = "" /\ cli.auth.os_auth_url = ""
    ELSE \/ cli.auth.os_username = "" \/ cli.auth.os_password = ""
         \/ cli.auth.os_auth_url = ""
         \/ (cli.auth.os_tenant_id = "" /\ cli.auth.os_tenant_name = "")

\* C12: when the authentication arguments are insufficient, the run never
\* creates the API client and never runs the command function; the check, once
\* reached, raises the CommandError at once and is the last thing the run does.
C12_AuthCheckedBeforeClient ==
    InsufficientAuth =>
        /\ ~Happened("get_client") /\ ~Happened("func")
        /\ cli.pc \notin {"client", "func"}
        /\ Happened("_ensure_auth_info") =>
               /\ cli.outcome.kind = "CommandError"
               /\ cli.events[Len(cli.events)] = "_ensure_auth_info"

\* C12 witness: a command with a password but no tenant was refused.
C12_Witness ==
    /\ InsufficientAuth /\ Exited /\ cli.raw_args = <<"plan-list">>
    /\ cli.auth.os_username # "" /\ cli.auth.os_password # ""
    /\ cli.outcome = Outcome("CommandError", "You must provide tenant via either --os-tenant-name or --os-tenant-id or env[OS_TENANT_NAME] or env[OS_TENANT_ID]")

\* C13: main ends with exit code 1, the stack trace logged, for every Exception
\* the run raises other than a CommandError; a CommandError only has its message
\* printed to standard error and the process ends without an error code.
C13_ExitCodes ==
    Exited =>
        /\ cli.outcome.kind = "Exception" => cli.exit = 1 /\ cli.logged
        /\ cli.outcome.kind = "CommandError" =>
               /\ cli.exit = 0 /\ ~cli.logged
               /\ cli.stderr = <<cli.outcome.value>>

\* C13 witness: the command function raised an unexpected exception.
C13_Witness ==
    Exited /\ Happened("func") /\ cli.outcome.kind = "Exception" /\ cli.exit = 1

\* help was asked for: no arguments, just -h/--help, the help subcommand, or the
\* help option on a parsed command line
HelpAsked ==
    \/ cli.raw_args \in {<<>>, <<"-h">>, <<"--help">>}
    \/ cli.args.ok /\ (cli.args.func = "do_help" \/ cli.args.help)
NoCommandWork ==
    ~Happened("_ensure_auth_info") /\ ~Happened("get_client") /\ ~Happened("func")

\* C14 as stated: whenever help is asked for, run displays help and returns 0
\* without checking credentials, creating a client or invoking a command.
C14_Original ==
    (HelpAsked /\ cli.pc \in {"main", "exited"}) =>
        /\ cli.outcome = Outcome("return", "0")
        /\ cli.printed # <<>>
        /\ NoCommandWork

\* C14 as amended: whenever help is asked for, run checks no credentials, creates
\* no client and invokes no other command; it displays help and returns 0,
\* except that the help subcommand given a name that is no subcommand displays
\* nothing and raises CommandError.
C14_Amended ==
    (HelpAsked /\ cli.pc \in {"main", "exited"}) =>
        /\ NoCommandWork
        /\ IF cli.args.ok /\ cli.args.command = "bogus"
           THEN /\ cli.printed = <<>>
                /\ cli.outcome =
                       Outcome("CommandError", "'bogus' is not a valid subcommand")
           ELSE cli.printed # <<>> /\ cli.outcome = Outcome("return", "0")

\* C14 witness: the help option before a command, with no credentials at all.
C14_Witness ==
    /\ Exited /\ cli.raw_args = <<"--help", "plan-list">>
    /\ cli.auth.os_username = "" /\ cli.auth.os_auth_token = None
    /\ cli.printed = <<"help">> /\ cli.exit = 0

(***************************************************************************)
(* Claims about the plan commands, checked under PlanSpec.                 *)
(***************************************************************************)
Done == cli.pc = "done"
PlanFetched == cli.plan # PyNone
UpdateSent == \E i \in DOMAIN cli.requests : cli.requests[i].method = "PATCH"

\* some --flavor or --scale argument names a role the fetched plan has not
UnknownRoleGiven ==
    /\ cli.command = "set" /\ PlanFetched
    /\ \E i \in DOMAIN cli.argv :
           /\ cli.argv[i].opt \in {"-F", "-S"}
           /\ cli.argv[i].key \notin RangeOf(role_names(cli.plan))

\* C15: in plan set, a ROLE given with --flavor or --scale that is no role of the
\* fetched plan fails the command while the patch is built: no update request is
\* sent, whatever else the invocation holds.
C15_UnknownRoleAborts ==
    UnknownRoleGiven =>
        /\ ~UpdateSent /\ cli.pc # "set:send"
        /\ Done => cli.outcome = Outcome("RoleNotFound", "")

\* C15 witness: a valid parameter next to a flavor for an unknown role, refused.
C15_Witness ==
    /\ UnknownRoleGiven /\ Done /\ cli.outcome.kind = "RoleNotFound"
    /\ cli.argv = <<Arg("-P", "a", "1"), Arg("-F", "ghost", "m1")>>
    /\ Len(cli.requests) = 1

\* C16: plan set issues the GET of the plan first and at most one update after
\* it; the update is issued exactly when the built patch is non-empty, and when
\* it is empty a warning goes to standard error and the plan of the GET is shown.
C16_GetThenAtMostOneUpdate ==
    cli.command = "set" =>
        /\ Len(cli.requests) <= 2
        /\ \A i \in DOMAIN cli.requests :
               cli.requests[i].method = (IF i = 1 THEN "GET" ELSE "PATCH")
        /\ (Done /\ PlanFetched /\ cli.outcome.kind # "RoleNotFound") =>
               IF cli.patch # <<>>
               THEN /\ UpdateSent /\ cli.stderr = <<>>
                    /\ cli.requests[2].patch = cli.patch
               ELSE /\ ~UpdateSent /\ cli.stderr = <<NoUpdateWarning>>
                    /\ cli.outcome.kind = "return"
                    /\ cli.result = dict2columns(cli.plan)

\* C16 witness: plan set without options warned and showed the fetched plan.
C16_Witness ==
    /\ cli.command = "set" /\ Done /\ cli.argv = <<>>
    /\ Len(cli.requests) = 1 /\ cli.stderr = <<NoUpdateWarning>>
    /\ cli.result.names # <<>>

\* the patch operation an argument stands for
ExpectedOp(arg) ==
    IF arg.opt = "-P" THEN PatchOp("add", "parameters/" \o arg.key, arg.value)
    ELSE PatchOp("replace",
                 role_id(roles_of(cli.plan), arg.key) \o "::"
                     \o (IF arg.opt = "-F" THEN "Flavor" ELSE "count"),
                 arg.value)
ExpectedOps(args) == [i \in DOMAIN args |-> ExpectedOp(args[i])]
SentPatch == cli.requests[2].patch

\* C17 as stated: the patch sent by plan set lists one operation per argument,
\* in the order of the arguments on the command line.
C17_Original ==
    (cli.command = "set" /\ UpdateSent) => SentPatch = ExpectedOps(cli.argv)

\* C17 as amended: the patch sent by plan set lists one operation per argument:
\* those of the --parameter arguments first, then those of the --flavor
\* arguments, then those of the --scale arguments, each group in the order of
\* its arguments on the command line.
C17_Amended ==
    (cli.command = "set" /\ UpdateSent) =>
        /\ Len(SentPatch) = Len(cli.argv)
        /\ SentPatch = ExpectedOps(collect(cli.argv, "-P"))
                           \o ExpectedOps(collect(cli.argv, "-F"))
                           \o ExpectedOps(collect(cli.argv, "-S"))

\* C17 witness: a flavor given before a parameter is sent after it.
C17_Witness ==
    /\ cli.command = "set" /\ UpdateSent
    /\ cli.argv = <<Arg("-F", "compute", "m1"), Arg("-P", "a", "1")>>
    /\ SentPatch = <<PatchOp("add", "parameters/a", "1"),
                     PatchOp("replace", "r1::Flavor", "m1")>>

\* C18: in plan create, a Conflict from the service is re-raised as a
\* CommandError whose message names the plan, every other error of the create
\* call propagates unchanged, and on success the created plan's fields are
\* returned for display.
C18_CreateConflict ==
    (cli.command = "create" /\ Done) =>
        /\ cli.requests = <<PlanRequest("POST", cli.name, <<>>)>>
        /\ CASE cli.answer = "Conflict" ->
                    cli.outcome = Outcome("CommandError",
                        "Plan with name \"" \o cli.name \o "\" already exists.")
             [] cli.answer = "ok" ->
                    /\ cli.outcome.kind = "return"
                    /\ cli.result = dict2columns(cli.plan)
             [] OTHER -> cli.outcome = Outcome(cli.answer, "")

\* C18 witness: the name was taken.
C18_Witness ==
    /\ cli.command = "create" /\ Done /\ cli.answer = "Conflict"
    /\ cli.name = "lab" /\ cli.outcome.kind = "CommandError"

\* the value shown under that name
Shown(name) ==
    cli.result.values[CHOOSE i \in DOMAIN cli.result.names : cli.result.names[i] = name]

\* C19: plan show without --long shows the comma-separated role names for the
\* roles and, when the plan has parameters, the suppression notice for them,
\* every other field as returned; with --long all fields are shown as returned.
C19_ShowShortOrLong ==
    (cli.command = "show" /\ Done /\ cli.outcome.kind = "return") =>
        /\ cli.result.names = dict2columns(cli.plan).names
        /\ \A i \in DOMAIN cli.result.names :
               cli.result.values[i] =
                   IF cli.long THEN dict2columns(cli.plan).values[i]
                   ELSE IF cli.result.names[i] = "roles"
                   THEN PyStr(Join(", ", role_names(cli.plan)))
                   ELSE IF cli.result.names[i] = "parameters"
                   THEN PyStr(SuppressionNotice)
                   ELSE dict2columns(cli.plan).values[i]

\* C19 witness: a plan with parameters and two roles, shown short.
C19_Witness ==
    /\ cli.command = "show" /\ Done /\ ~cli.long
    /\ HasKey(cli.plan, "parameters")
    /\ Shown("parameters") = PyStr(SuppressionNotice)
    /\ Shown("roles") = PyStr("compute, control")

\* the files in the output directory
FilesInOutputDir ==
    {n \in cli.fs : n.kind = "file" /\ IsPrefix(output_dir, n.path)}

\* C20: after plan download has completed, the output directory holds exactly
\* one file per entry of the template mapping, with the entry's content, at the
\* path its name implies, and nothing that was there before.
C20_DownloadExactlyTemplates ==
    (cli.command = "download" /\ Done /\ cli.outcome.kind = "return") =>
        FilesInOutputDir =
            {File(output_dir \o cli.templates[i].parts, content_of(cli.templates[i])) :
                 i \in DOMAIN cli.templates}

(***************************************************************************)
(* More claims about the shell, checked under ShellSpec.                   *)
(***************************************************************************)
\* the items _ensure_auth_info asks for without a token, in its order, each
\* with whether it is missing
ItemsWithoutToken ==
    <<[item |-> "username", missing |-> cli.auth.os_username = ""],
      [item |-> "password", missing |-> cli.auth.os_password = ""],
      [item |-> "tenant",
       missing |-> cli.auth.os_tenant_id = "" /\ cli.auth.os_tenant_name = ""],
      [item |-> "auth URL", missing |-> cli.auth.os_auth_url = ""]>>
IsFirstMissing(i) ==
    ItemsWithoutToken[i].missing /\ \A j \in 1..(i - 1) : ~ItemsWithoutToken[j].missing

\* the error the check raised is the one asking for that item
AskedFor(item) ==
    /\ cli.outcome.kind = "CommandError"
    /\ cli.outcome.value \in
           {"You must provide " \o item \o " via either " \o rest :
                rest \in {"--os-username or env[OS_USERNAME]",
                          "--os-password or env[OS_PASSWORD]",
                          "--os-tenant-name or --os-tenant-id or env[OS_TENANT_NAME] or env[OS_TENANT_ID]",
                          "--os-auth-url or env[OS_AUTH_URL]"}}
AskedForUrl ==
    cli.outcome =
        Outcome("CommandError",
                "You must provide either --tuskar-url or --os-auth-url or env[TUSKAR_URL] or env[OS_AUTH_URL]")

\* the check has just been made: nothing has happened after it
JustChecked ==
    cli.events # <<>> /\ cli.events[Len(cli.events)] = "_ensure_auth_info"
CheckPassed == JustChecked /\ cli.pc = "client" /\ cli.outcome = Running

\* the outcome of the check, for the two variants
C21_CheckOutcome ==
    JustChecked =>
        IF cli.auth.os_auth_token \in {None, ""}
        THEN /\ \A i \in DOMAIN ItemsWithoutToken :
                    IsFirstMissing(i) => AskedFor(ItemsWithoutToken[i].item)
             /\ (\A i \in DOMAIN ItemsWithoutToken : ~ItemsWithoutToken[i].missing)
                    => CheckPassed
        ELSE IF cli.auth.tuskar_url # "" \/ cli.auth.os_auth_url # ""
        THEN CheckPassed
        ELSE AskedForUrl

\* C21: _ensure_auth_info, without an auth token, raises the CommandError for
\* the first missing item in the order username, password, tenant (id or
\* name), auth URL, and accepts when none is missing; with an auth token it
\* accepts whenever the tuskar URL or the auth URL is given and raises only
\* when both are missing; and it never modifies the arguments.
C21_EnsureAuthInfoVariants ==
    /\ []C21_CheckOutcome
    /\ [][cli.pc = "auth" => cli'.auth = cli.auth /\ cli'.args = cli.args]_vars

\* C21 witness: a token and only the auth URL, accepted with nothing else given.
C21_Witness ==
    /\ CheckPassed /\ cli.auth.os_auth_token = "tok"
    /\ cli.auth.tuskar_url = "" /\ cli.auth.os_auth_url # ""
    /\ cli.auth.os_username = "" /\ cli.auth.os_password = ""

(***************************************************************************)
(* More claims about KeystoneAuthPlugin, checked under AuthSpec.           *)
(***************************************************************************)
\* sufficient_options succeeds on the options, and _do_authenticate has run
SufficientAndAuthenticated ==
    ~sufficient_options(opts).raised /\ authCalls >= 1

\* C22: for options on which sufficient_options succeeds, token_and_endpoint
\* called after _do_authenticate returns a token and an endpoint that are both
\* not None, an empty-string token included.
C22_SufficientNeverNonePair ==
    (Returned /\ SufficientAndAuthenticated) =>
        last.token # None /\ last.endpoint # None

\* the same for every token but the empty string
C22_ExceptEmptyToken ==
    (Returned /\ SufficientAndAuthenticated /\ opts.token # "") =>
        last.token # None /\ last.endpoint # None

(***************************************************************************)
(* More claims about the plan commands, checked under PlanSpec.            *)
(***************************************************************************)
\* the output directory is a directory with nothing in it
OutputDirEmpty ==
    /\ Dir(output_dir) \in cli.fs
    /\ \A n \in cli.fs : IsPrefix(output_dir, n.path) => n.path = output_dir
TemplatesRequested ==
    \E i \in DOMAIN cli.requests : cli.requests[i].target = "u1/templates"

\* C23: plan download has removed an existing output directory and made it anew,
\* empty, before it requests the templates: when it is about to request them,
\* and when the request has failed, the output directory exists and is empty,
\* nothing of its earlier contents being left.
C23_DirRecreatedBeforeFetch ==
    cli.command = "download" =>
        /\ TemplatesRequested => Dir(output_dir) \in cli.fs
        /\ (cli.pc = "download:fetch" \/ (TemplatesRequested /\ cli.answer # "ok"))
               => OutputDirEmpty /\ cli.fs \ {Dir(output_dir)} = BaseFs

\* C23 witness: a directory holding an earlier download, and a failed retrieval.
C23_Witness ==
    /\ cli.command = "download" /\ Done /\ cli.answer = "NotFound"
    /\ File(output_dir \o <<"old.yaml">>, "old") \in cli.fs0
    /\ OutputDirEmpty

(***************************************************************************)
(* Claims about overcloud delete, checked under OvercloudSpec.             *)
(***************************************************************************)
LookupFailed == cli.answers # <<>> /\ cli.answers[1] # "ok"
DeleteCalled == \E i \in DOMAIN cli.events : cli.events[i] = "delete"
MessagePrinted == cli.outfile # <<>>

\* C24: overcloud delete looks the overcloud up before it deletes; when the
\* lookup fails no delete request is issued, and the 'Deleted Overcloud'
\* message is printed only after the delete call has returned without error,
\* never when the lookup or the delete has failed.
C24_LookupBeforeDelete ==
    /\ \A i \in DOMAIN cli.events :
           cli.events[i] = (IF i = 1 THEN "find_resource" ELSE "delete")
    /\ Len(cli.events) <= 2
    /\ LookupFailed => ~DeleteCalled /\ ~MessagePrinted
    /\ MessagePrinted =>
           /\ cli.answers = <<"ok", "ok">>
           /\ cli.outfile = <<DeletedMessage(overcloud_name(cli.id))>>
    /\ (cli.pc = "done" /\ cli.answers = <<"ok", "ok">>) => MessagePrinted

\* C24 witness: the overcloud deleted by the first command is looked up again.
C24_Witness ==
    /\ cli.runs = 2 /\ cli.pc = "done" /\ cli.id \notin cli.store
    /\ cli.answers = <<"NotFound">> /\ ~DeleteCalled /\ ~MessagePrinted

====
